---- MODULE Spec2Model ----
(***************************************************************************)
(* A model of go-cdb: the Writer (Put, Close, Freeze, finalize) and the    *)
(* reader (Open, verifyChecksum, New, readIndex, Get, getValueAt) of a     *)
(* constant key/value database with a SHA-256 trailer.                     *)
(*                                                                         *)
(* Numbers.  The code computes with uint32 and int64 values up to and      *)
(* beyond 2^32, which do not fit the model checker's integers.  A number   *)
(* is therefore a pair <<hi, lo>> that stands for hi * 2^16 + lo, with     *)
(* 0 <= lo < 2^16; a uint32 has hi < 2^16 as well.                         *)
(*                                                                         *)
(* Bytes.  A byte string is a sequence of pieces [d, z]: the explicit      *)
(* bytes d followed by z zero bytes (z a number), so that a record of      *)
(* nearly 4 GiB can be written to the file.                                *)
(***************************************************************************)
EXTENDS Integers, Sequences, FiniteSets, TLC

\* ------------------------------------------------------------ numbers

Base == 256 * 256

Zero == <<0, 0>>

\* The number of a small non-negative integer.
N(i) == <<i \div Base, i % Base>>

\* The integer of a number that fits one.
ToInt(a) == a[1] * Base + a[2]

BAdd(a, b) == <<a[1] + b[1] + ((a[2] + b[2]) \div Base), (a[2] + b[2]) % Base>>

\* a - b, for a >= b.
BSub(a, b) ==
  IF a[2] >= b[2] THEN <<a[1] - b[1], a[2] - b[2]>>
  ELSE <<a[1] - b[1] - 1, a[2] + Base - b[2]>>

BLt(a, b) == a[1] < b[1] \/ (a[1] = b[1] /\ a[2] < b[2])

BLe(a, b) == a = b \/ BLt(a, b)

\* uint32(x): the low 32 bits.
U32(a) == <<a[1] % Base, a[2]>>

\* math.MaxUint32
MaxUint32 == <<Base - 1, Base - 1>>

\* x % m for an integer x < 2^24 and a uint32 m > 0.
ModU32(x, m) == IF m[1] >= 256 THEN x ELSE x % ToInt(m)

\* -------------------------------------------------------- byte strings

Piece(d, z) == [d |-> d, z |-> z]

\* The byte string of explicit bytes (d \o <<>> is d, held as a tuple).
Lit(d) == <<Piece(d \o <<>>, Zero)>>

PLen(p) == BAdd(N(Len(p.d)), p.z)

RECURSIVE Size(_)
Size(f) == IF f = <<>> THEN Zero ELSE BAdd(PLen(Head(f)), Size(Tail(f)))

\* The first n bytes of a piece, n <= PLen(p).
PTake(p, n) ==
  IF BLe(N(Len(p.d)), n) THEN Piece(p.d, BSub(n, N(Len(p.d))))
  ELSE Piece(SubSeq(p.d, 1, ToInt(n)), Zero)

\* A piece without its first n bytes, n <= PLen(p).
PDrop(p, n) ==
  IF BLe(N(Len(p.d)), n) THEN Piece(<<>>, BSub(PLen(p), n))
  ELSE Piece(SubSeq(p.d, ToInt(n) + 1, Len(p.d)), p.z)

\* The first n bytes of f (all of f when it is shorter).
RECURSIVE TakeBytes(_, _)
TakeBytes(f, n) ==
  IF f = <<>> \/ n = Zero THEN <<>>
  ELSE IF BLe(PLen(Head(f)), n)
       THEN <<Head(f)>> \o TakeBytes(Tail(f), BSub(n, PLen(Head(f))))
       ELSE <<PTake(Head(f), n)>>

\* f without its first n bytes (empty when it is shorter).
RECURSIVE DropBytes(_, _)
DropBytes(f, n) ==
  IF f = <<>> THEN <<>>
  ELSE IF n = Zero THEN f
  ELSE IF BLe(PLen(Head(f)), n)
       THEN DropBytes(Tail(f), BSub(n, PLen(Head(f))))
       ELSE <<PDrop(Head(f), n)>> \o Tail(f)

\* The byte at position pos < Size(f).
RECURSIVE ByteAt(_, _)
ByteAt(f, pos) ==
  LET p == Head(f) IN
  IF BLt(pos, PLen(p))
  THEN (IF BLt(pos, N(Len(p.d))) THEN p.d[ToInt(pos) + 1] ELSE 0)
  ELSE ByteAt(Tail(f), BSub(pos, PLen(p)))

\* The n bytes at off, as explicit bytes (n small, off + n <= Size(f)).
Explicit(f, off, n) ==
  IF off[1] = 0 /\ off[2] + n <= Len(f[1].d)
  THEN SubSeq(f[1].d, off[2] + 1, off[2] + n)
  ELSE [i \in 1..n |-> ByteAt(f, BAdd(off, N(i - 1)))] \o <<>>

\* Explicit bytes without their trailing zero bytes.
Strip(d) ==
  LET nz == {i \in 1..Len(d) : d[i] # 0}
      last == IF nz = {} THEN 0 ELSE CHOOSE i \in nz : \A j \in nz : j <= i
  IN SubSeq(d, 1, last)

Zeros(n) == [i \in 1..n |-> 0] \o <<>>

\* One piece holding the bytes of f, the trailing zero bytes counted in z:
\* two byte strings are equal exactly when their Canon are.
RECURSIVE CanonFrom(_, _)
CanonFrom(acc, f) ==
  IF f = <<>> THEN acc
  ELSE LET p == Head(f)
           sd == Strip(p.d)
       IN IF sd = <<>>
          THEN CanonFrom(Piece(acc.d, BAdd(acc.z, PLen(p))), Tail(f))
          ELSE CanonFrom(Piece(acc.d \o Zeros(ToInt(acc.z)) \o sd,
                               BAdd(N(Len(p.d) - Len(sd)), p.z)), Tail(f))

Canon(f) == CanonFrom(Piece(<<>>, Zero), f)

\* The len bytes of f at off as one canonical piece (off + len <= Size(f)).
Slice(f, off, len) == Canon(TakeBytes(DropBytes(f, off), len))

\* ------------------------------------------------------------ the codec

\* binary.LittleEndian.PutUint32
PutUint32(x) == <<x[2] % 256, x[2] \div 256, x[1] % 256, x[1] \div 256>>

\* binary.LittleEndian.Uint32 of the 4 bytes of b from index i
Uint32(b, i) == <<b[i + 2] + 256 * b[i + 3], b[i] + 256 * b[i + 1]>>

\* writeTuple: a pair of uint32 as 8 little-endian bytes.
writeTuple(first, second) == PutUint32(first) \o PutUint32(second)

\* readTuple's decoding of the 8 bytes b.
tupleFirst(b) == Uint32(b, 1)

tupleSecond(b) == Uint32(b, 5)

\* bs followed by cs; explicit bytes that meet are kept in one piece.
Cat(bs, cs) ==
  IF bs = <<>> THEN cs
  ELSE IF cs = <<>> THEN bs
  ELSE LET l == bs[Len(bs)] IN
       IF l.z = Zero
       THEN SubSeq(bs, 1, Len(bs) - 1)
              \o <<Piece(l.d \o Head(cs).d, Head(cs).z)>> \o Tail(cs)
       ELSE bs \o cs

\* f with the bytes of buf written at offset 0 (os.File.Seek(0), Write).
WriteAt0(f, buf) == Cat(buf, DropBytes(f, Size(buf)))

\* ----------------------------------------------------------- the digest

\* sha256.Size
digestSize == 32

RECURSIVE StrideSum(_, _)
StrideSum(d, i) ==
  IF i > Len(d) THEN 0 ELSE d[i] + StrideSum(d, i + digestSize)

\* The sum of the bytes of f at the positions congruent to j modulo
\* digestSize, f starting at position start.
RECURSIVE LaneSum(_, _, _)
LaneSum(f, start, j) ==
  IF f = <<>> THEN 0
  ELSE StrideSum(Head(f).d,
                 ((j + digestSize - (start[2] % digestSize)) % digestSize) + 1)
       + LaneSum(Tail(f), BAdd(start, PLen(Head(f))), j)

\* sha256.New, MmapReader, Sum: the digest of the bytes of f, 32 bytes.
\* SHA-256 itself is outside the model; this digest stands for it.  It
\* depends on every byte and on the length, and, as is assumed of
\* SHA-256, differs for two byte strings that differ in one byte.
Sum256(f) ==
  LET len == PutUint32(U32(Size(f))) IN
  [j \in 1..digestSize |->
     (j + LaneSum(f, Zero, j - 1) + (IF j <= 4 THEN len[j] ELSE 0)) % 256]
  \o <<>>

\* ------------------------------------------------------------ the state

nBuckets == 256

indexSize == 256 * 8

Buckets == 0..(nBuckets - 1)

\* Key byte strings.
Keys == {<<1>>, <<2>>, <<1, 2>>}

\* A nil error.
Nil == "nil"

\* An absent value (a nil slice, a nil *CDB) is <<>>, a present one <<x>>.
None == <<>>

Some(x) == <<x>>

NoCDB == None

\* A bufio.Writer holding the bytes buf, and the nil *bufio.Writer.
Buffered(buf) == [nil |-> FALSE, buf |-> buf]

NilWriter == [nil |-> TRUE, buf |-> <<>>]

\* An index is the sequence of its 256 tables: bucket i is index[i + 1].
\* The zero value of type index.
ZeroIndex == [i \in 1..nBuckets |-> [offset |-> Zero, length |-> Zero]] \o <<>>

\* hash & 0xff
LowByte(hash) == hash[2] % 256

\* hash >> 8
Shr8(hash) == hash[1] * 256 + (hash[2] \div 256)

VARIABLES
  hasher,               \* Writer.hasher, CDB.hasher: the hash of each key
  entries,              \* Writer.entries
  finalizeOnce,         \* Writer.finalizeOnce: TRUE once Do has run
  bufferedWriter,       \* Writer.bufferedWriter: Nil, or the bytes pending
  bufferedOffset,       \* Writer.bufferedOffset
  estimatedFooterSize,  \* Writer.estimatedFooterSize
  writerClosed,         \* Writer.writer: whether the os.File is closed
  disk,                 \* the bytes of the file
  pc,                   \* per caller: "idle", or the call past its Do
  local,                \* per caller: the call's err and index variables
  ret,                  \* per caller: what its last call returned
  frozen,               \* per caller: the CDB its last Freeze returned
  opened,               \* the CDB the last Open returned
  openErr,              \* the error of the last Open
  got,                  \* the last Get: reader, key, value, error, reads
  lastPut,              \* the last Put: key, value, error
  putCalls,             \* history: how many Puts were called
  puts,                 \* history: the Puts that returned nil, in order
  finRuns,              \* history: how often finalize's body ran
  ckWrites,             \* history: how often a checksum was appended
  finErr,               \* history: the error finalize returned, if it ran
  corrupted             \* history: whether a byte of the file was changed

vars == <<hasher, entries, finalizeOnce, bufferedWriter, bufferedOffset,
          estimatedFooterSize, writerClosed, disk, pc, local, ret, frozen,
          opened, openErr, got, lastPut, putCalls, puts, finRuns, ckWrites,
          finErr, corrupted>>

\* The hash values a hasher may give: 0 and 0x300 (both bucket 0, probes
\* starting at slots 0 and 3 % tableSize), and 0xFFFFFFFF (bucket 255).
HashVals == {<<0, 0>>, <<0, 768>>, <<Base - 1, Base - 1>>}

\* NewWriter's hasher: any function from keys to uint32.
Hashers == [Keys -> HashVals]

NumCallers == 2

\* The goroutines that call Close and Freeze.
Callers == 1..NumCallers

\* -------------------------------------------------------------- Writer

\* A hasher that gives no key the hash 0: the two one-byte keys collide on
\* 0x300, the two-byte key has 0xFFFFFFFF.
NonZeroHashers ==
  {[k \in Keys |-> IF Len(k) = 1 THEN <<0, 768>> ELSE <<Base - 1, Base - 1>>]}

\* Hashers that differ only in the hash of the key <<1>>, which may be 0.
FewHashers ==
  {h \in Hashers : h[<<2>>] = <<0, 768>> /\ h[<<1, 2>>] = <<Base - 1, Base - 1>>}

\* NewWriter with one of the given hashers: the index area is written as
\* zero bytes, nothing is pending.
NewWriter(hashers) ==
  /\ hasher \in hashers
  /\ entries = [i \in Buckets |-> <<>>]
  /\ finalizeOnce = FALSE
  /\ bufferedWriter = Buffered(<<>>)
  /\ bufferedOffset = N(indexSize)
  /\ estimatedFooterSize = Zero
  /\ writerClosed = FALSE
  /\ disk = <<Piece(<<>>, N(indexSize))>>
  /\ pc = [p \in Callers |-> "idle"]
  /\ local = [p \in Callers |-> [err |-> Nil, index |-> ZeroIndex]]
  /\ ret = [p \in Callers |-> [op |-> "none", err |-> Nil]]
  /\ frozen = [p \in Callers |-> NoCDB]
  /\ opened = NoCDB
  /\ openErr = Nil
  /\ got = [reader |-> -1, key |-> <<>>, value |-> None, err |-> Nil,
            reads |-> <<>>]
  /\ lastPut = [key |-> <<>>, value |-> None, err |-> Nil]
  /\ putCalls = 0
  /\ puts = <<>>
  /\ finRuns = 0
  /\ ckWrites = 0
  /\ finErr = "notrun"
  /\ corrupted = FALSE

Init == NewWriter(Hashers)

\* Put's size check: whether the record must be refused.
\* The guard without the 16 bytes of the new entry's two slots.
TooMuchDataNoSlots(offset, entrySize, footer) ==
  BLt(MaxUint32, BAdd(BAdd(offset, entrySize), footer))

TooMuchData(offset, entrySize, footer) ==
  BLt(MaxUint32, BAdd(BAdd(BAdd(offset, entrySize), footer), N(16)))

\* Put(key, value).  A Put on a Writer whose bufferedWriter is nil (after
\* finalize) has recorded its entry when writeTuple dereferences nil.
Put(key, value) ==
  LET entrySize == BAdd(N(8 + Len(key)), PLen(value))
      hash == hasher[key]
      table == LowByte(hash)
      entry == [hash |-> hash, offset |-> U32(bufferedOffset)]
  IN
  /\ \A p \in Callers : pc[p] = "idle"
  /\ putCalls' = putCalls + 1
  /\ IF TooMuchData(bufferedOffset, entrySize, estimatedFooterSize)
     THEN /\ lastPut' = [key |-> key, value |-> Some(value), err |-> "ErrTooMuchData"]
          /\ UNCHANGED <<entries, bufferedWriter, bufferedOffset,
                         estimatedFooterSize, puts>>
     ELSE /\ entries' = [entries EXCEPT ![table] = Append(@, entry)]
          /\ IF bufferedWriter.nil
             THEN /\ lastPut' = [key |-> key, value |-> Some(value), err |-> "panic"]
                  /\ UNCHANGED <<bufferedWriter, bufferedOffset,
                                 estimatedFooterSize, puts>>
             ELSE /\ bufferedWriter' =
                       Buffered(
                         Cat(Cat(Cat(bufferedWriter.buf,
                                     Lit(writeTuple(U32(N(Len(key))),
                                                    U32(PLen(value))))),
                                 Lit(key)),
                             <<value>>))
                  /\ bufferedOffset' = BAdd(bufferedOffset, entrySize)
                  /\ estimatedFooterSize' = BAdd(estimatedFooterSize, N(16))
                  /\ lastPut' = [key |-> key, value |-> Some(value), err |-> Nil]
                  /\ puts' = Append(puts, <<key, value>>)
  /\ UNCHANGED <<hasher, finalizeOnce, writerClosed, disk, pc, local, ret,
                 frozen, opened, openErr, got, finRuns, ckWrites, finErr,
                 corrupted>>

\* ------------------------------------------------------------- finalize

EmptySlot == [hash |-> Zero, offset |-> Zero]

\* The probe loop of finalize: the first slot from slot on whose hash is 0.
RECURSIVE ProbeFree(_, _)
ProbeFree(sorted, slot) ==
  IF sorted[slot + 1].hash = Zero THEN slot
  ELSE ProbeFree(sorted, (slot + 1) % Len(sorted))

\* The slot an entry's probe starts at: (hash >> 8) % tableSize.
StartSlot(hash, tableSize) == ModU32(Shr8(hash), tableSize)

\* A placement in which an entry of hash 0 takes the slot its probe starts
\* at, whatever that slot holds.
PlaceEntryZeroOverwrites(sorted, entry) ==
  IF entry.hash = Zero
  THEN [sorted EXCEPT ![StartSlot(entry.hash, N(Len(sorted))) + 1] = entry]
  ELSE [sorted EXCEPT
          ![ProbeFree(sorted, StartSlot(entry.hash, N(Len(sorted)))) + 1] = entry]

\* One entry placed into sorted.
PlaceEntry(sorted, entry) ==
  [sorted EXCEPT
     ![ProbeFree(sorted, StartSlot(entry.hash, N(Len(sorted)))) + 1] = entry]

\* The entries placed from the last to the first.
RECURSIVE PlaceAllLastFirst(_, _)
PlaceAllLastFirst(sorted, tableEntries) ==
  IF tableEntries = <<>> THEN sorted
  ELSE PlaceEntry(PlaceAllLastFirst(sorted, Tail(tableEntries)),
                  Head(tableEntries))

\* The loop over tableEntries, in the order of the Puts.
RECURSIVE PlaceAll(_, _)
PlaceAll(sorted, tableEntries) ==
  IF tableEntries = <<>> THEN sorted
  ELSE PlaceAll(PlaceEntry(sorted, Head(tableEntries)), Tail(tableEntries))

\* A table size without the shift.
TableSizeEntries(tableEntries) == Len(tableEntries)

\* tableSize := len(tableEntries) << 1
TableSize(tableEntries) == 2 * Len(tableEntries)

\* The sub-table of a bucket, of tableSize slots.
SortedTable(tableEntries) ==
  PlaceAll([i \in 1..TableSize(tableEntries) |-> EmptySlot], tableEntries)

\* How many slots the writing loop writes from offset off: all m, or up to
\* the first whose end passes MaxUint32, where it returns ErrTooMuchData.
SlotsWritten(off, m) ==
  IF m = 0 \/ BLe(BAdd(off, N(8 * m)), MaxUint32) THEN m
  ELSE CHOOSE k \in 1..m :
         /\ BLt(MaxUint32, BAdd(off, N(8 * k)))
         /\ BLe(BAdd(off, N(8 * (k - 1))), MaxUint32)

SlotBytes(sorted, k) ==
  IF k = 0 THEN <<>>
  ELSE Lit([i \in 1..(8 * k) |->
              writeTuple(sorted[((i - 1) \div 8) + 1].hash,
                         sorted[((i - 1) \div 8) + 1].offset)[((i - 1) % 8) + 1]])

\* The buckets that hold entries.
NonEmpty == {j \in Buckets : entries[j] # <<>>}

Least(S) == CHOOSE x \in S : \A y \in S : x <= y

\* The sub-tables of the buckets S, one after the other in ascending order
\* (the sub-table of an empty bucket has no slot).
RECURSIVE TablesOf(_)
TablesOf(S) ==
  IF S = {} THEN <<>>
  ELSE SortedTable(entries[Least(S)]) \o TablesOf(S \ {Least(S)})

\* The loop of finalize with the offset of every table taken before the
\* loop instead of at the table's turn.
WriteTablesOffsetBefore(buf, off) ==
  LET all == TablesOf(NonEmpty)
      k == SlotsWritten(off, Len(all))
  IN [index |-> [i \in 1..nBuckets |->
                   [offset |-> U32(off),
                    length |-> N(TableSize(entries[i - 1]))]] \o <<>>,
      buf |-> Cat(buf, SlotBytes(all, k)),
      off |-> BAdd(off, N(8 * k)),
      err |-> IF k = Len(all) THEN Nil ELSE "ErrTooMuchData"]

\* finalize's loop over the 256 buckets, from the pending bytes buf at
\* offset off: the index, the pending bytes, the offset and the error it
\* ends with.  Bucket i gets index[i] = (uint32(offset), tableSize) before
\* its slots are written; each slot written advances the offset by 8, and
\* the loop returns ErrTooMuchData after the slot that passes MaxUint32,
\* which leaves the later buckets' index entries zero.
WriteTables(buf, off) ==
  LET ne == NonEmpty
      all == TablesOf(ne)
      k == SlotsWritten(off, Len(all))
      \* the slots of all sub-tables, each with its bucket
      slots == UNION {{<<j, n>> : n \in 1..TableSize(entries[j])} : j \in ne}
      before(i) == Cardinality({sl \in slots : sl[1] < i})
  IN [index |-> [i \in 1..nBuckets |->
                   IF k = Len(all) \/ before(i - 1) < k
                   THEN [offset |-> U32(BAdd(off, N(8 * before(i - 1)))),
                         length |-> N(TableSize(entries[i - 1]))]
                   ELSE [offset |-> Zero, length |-> Zero]] \o <<>>,
      buf |-> Cat(buf, SlotBytes(all, k)),
      off |-> BAdd(off, N(8 * k)),
      err |-> IF k = Len(all) THEN Nil ELSE "ErrTooMuchData"]

\* Byte r (0..3) of binary.LittleEndian.PutUint32(x).
ByteOf(x, r) ==
  IF r = 0 THEN x[2] % 256
  ELSE IF r = 1 THEN x[2] \div 256
  ELSE IF r = 2 THEN x[1] % 256
  ELSE x[1] \div 256

\* The index bytes with the two fields of each table in the wrong order.
IndexBytesSwapped(index) ==
  [j \in 1..indexSize |->
     IF (j - 1) % 8 < 4
     THEN ByteOf(index[((j - 1) \div 8) + 1].length, (j - 1) % 8)
     ELSE ByteOf(index[((j - 1) \div 8) + 1].offset, ((j - 1) % 8) - 4)]

\* The index as its 2048 bytes: (offset, length) of each table in turn.
IndexBytes(index) ==
  [j \in 1..indexSize |->
     IF (j - 1) % 8 < 4
     THEN ByteOf(index[((j - 1) \div 8) + 1].offset, (j - 1) % 8)
     ELSE ByteOf(index[((j - 1) \div 8) + 1].length, ((j - 1) % 8) - 4)]

\* Where an I/O operation of finalize may fail: the Flush, the Seek to 0 or
\* the Write of the index, the Seek to the end or MmapReader, the Write of
\* the checksum.
FailPoints == {"none", "flush", "index", "mmap", "ck"}

\* finalize, for each I/O failure fp: the index and error it returns, and
\* the Writer's fields and the file's bytes it leaves.
finalize ==
  LET t == WriteTables(bufferedWriter.buf, bufferedOffset)
      flushed == Cat(disk, t.buf)
      indexed == WriteAt0(flushed, Lit(IndexBytes(t.index)))
      ck == Sum256(indexed)
      res(err, bw, d, c) == [index |-> t.index, err |-> err, off |-> t.off,
                             bw |-> bw, disk |-> d, ck |-> c]
  IN [fp \in FailPoints |->
        IF t.err # Nil THEN res(t.err, Buffered(t.buf), disk, 0)
        ELSE IF fp = "flush" THEN res("EIO", NilWriter, disk, 0)
        ELSE IF fp = "index" THEN res("EIO", NilWriter, flushed, 0)
        ELSE IF fp = "mmap" THEN res("EIO", NilWriter, indexed, 0)
        ELSE IF fp = "ck" THEN res("EIO", NilWriter, indexed, 0)
        ELSE res(Nil, NilWriter, Cat(indexed, Lit(ck)), 1)]

\* Do without the Once: every call runs finalize.
DoEveryTime(p, op, fp) ==
  /\ pc[p] = "idle"
  /\ pc' = [pc EXCEPT ![p] = op]
  /\ \E r \in {finalize[fp]} :
       /\ finalizeOnce' = TRUE
       /\ bufferedWriter' = r.bw
       /\ bufferedOffset' = r.off
       /\ disk' = r.disk
       /\ local' = [local EXCEPT ![p] = [err |-> r.err, index |-> r.index]]
       /\ finRuns' = finRuns + 1
       /\ ckWrites' = ckWrites + r.ck
       /\ finErr' = r.err
  /\ UNCHANGED <<hasher, entries, estimatedFooterSize, writerClosed, ret,
                 frozen, opened, openErr, got, lastPut, putCalls, puts, corrupted>>

\* sync.Once.Do(finalize) inside Close (op = "Close") or Freeze (op =
\* "Freeze"): the first Do runs finalize, a later one returns at once and
\* leaves the caller's err and index at their zero values.  A Do that finds
\* another one running waits for it, so Do is one step.
Do(p, op, fp) ==
  /\ pc[p] = "idle"
  /\ pc' = [pc EXCEPT ![p] = op]
  /\ IF ~finalizeOnce
     THEN \E r \in {finalize[fp]} :
            /\ finalizeOnce' = TRUE
            /\ bufferedWriter' = r.bw
            /\ bufferedOffset' = r.off
            /\ disk' = r.disk
            /\ local' = [local EXCEPT ![p] = [err |-> r.err, index |-> r.index]]
            /\ finRuns' = finRuns + 1
            /\ ckWrites' = ckWrites + r.ck
            /\ finErr' = r.err
     ELSE /\ local' = [local EXCEPT ![p] = [err |-> Nil, index |-> ZeroIndex]]
          /\ UNCHANGED <<finalizeOnce, bufferedWriter, bufferedOffset, disk,
                         finRuns, ckWrites, finErr>>
  /\ UNCHANGED <<hasher, entries, estimatedFooterSize, writerClosed, ret,
                 frozen, opened, openErr, got, lastPut, putCalls, puts, corrupted>>

\* The rest of Close: return err, or the result of closing the file.  The
\* call's locals end with it.
CloseReturn(p) ==
  /\ pc[p] = "Close"
  /\ pc' = [pc EXCEPT ![p] = "idle"]
  /\ local' = [local EXCEPT ![p] = [err |-> Nil, index |-> ZeroIndex]]
  /\ IF local[p].err # Nil
     THEN /\ ret' = [ret EXCEPT ![p] = [op |-> "Close", err |-> local[p].err]]
          /\ UNCHANGED writerClosed
     ELSE /\ ret' = [ret EXCEPT ![p] =
                       [op |-> "Close",
                        err |-> IF writerClosed THEN "ErrClosed" ELSE Nil]]
          /\ writerClosed' = TRUE
  /\ UNCHANGED <<hasher, entries, finalizeOnce, bufferedWriter, bufferedOffset,
                 estimatedFooterSize, disk, frozen, opened, openErr,
                 got, lastPut, putCalls, puts, finRuns, ckWrites, finErr, corrupted>>

\* The rest of Freeze: return err, or a CDB on the Writer's file with the
\* call's index.
FreezeReturn(p) ==
  /\ pc[p] = "Freeze"
  /\ pc' = [pc EXCEPT ![p] = "idle"]
  /\ local' = [local EXCEPT ![p] = [err |-> Nil, index |-> ZeroIndex]]
  /\ ret' = [ret EXCEPT ![p] = [op |-> "Freeze", err |-> local[p].err]]
  /\ frozen' = [frozen EXCEPT ![p] =
                  IF local[p].err # Nil THEN NoCDB
                  ELSE Some([index |-> local[p].index, shared |-> TRUE])]
  /\ UNCHANGED <<hasher, entries, finalizeOnce, bufferedWriter, bufferedOffset,
                 estimatedFooterSize, writerClosed, disk, opened,
                 openErr, got, lastPut, putCalls, puts, finRuns, ckWrites, finErr,
                 corrupted>>

\* --------------------------------------------------------------- reader

\* verifyChecksum with the size test off by one (sz <= 2048 + sha256.Size).
verifyChecksumOffByOne(f) ==
  LET sz == Size(f)
      datasz == BSub(sz, N(digestSize))
  IN IF BLe(sz, N(2048 + digestSize)) THEN "too small"
     ELSE IF Explicit(f, datasz, digestSize) # Sum256(TakeBytes(f, datasz))
          THEN "checksum failed"
          ELSE Nil

\* verifyChecksum without the comparison of the trailer with the digest.
verifyChecksumSizeOnly(f) ==
  IF BLt(Size(f), N(2048 + digestSize)) THEN "too small" ELSE Nil

\* verifyChecksum on a file of bytes f: Nil, or the error.
verifyChecksum(f) ==
  LET sz == Size(f)
      datasz == BSub(sz, N(digestSize))
  IN IF BLt(sz, N(2048 + digestSize)) THEN "too small"
     ELSE IF Explicit(f, datasz, digestSize) # Sum256(TakeBytes(f, datasz))
          THEN "checksum failed"
          ELSE Nil

\* readIndex: the index decoded from the first indexSize bytes.
readIndex(f) ==
  LET buf == Explicit(f, Zero, indexSize) IN
  [i \in 1..nBuckets |-> [offset |-> Uint32(buf, 8 * i - 7),
                          length |-> Uint32(buf, 8 * i - 3)]] \o <<>>

\* Open(path): verifyChecksum, then New with its readIndex.  The reader
\* hashes keys as the Writer did (the hash function the file was created
\* with).
Open ==
  /\ \E err \in {verifyChecksum(disk)} :
       /\ openErr' = err
       /\ opened' = IF err # Nil THEN NoCDB
                    ELSE Some([index |-> readIndex(disk), shared |-> FALSE])
  /\ UNCHANGED <<hasher, entries, finalizeOnce, bufferedWriter, bufferedOffset,
                 estimatedFooterSize, writerClosed, disk, pc, local, ret,
                 frozen, got, lastPut, putCalls, puts, finRuns, ckWrites, finErr,
                 corrupted>>

\* New(reader, hasher) on the file as it is, without verifyChecksum: a CDB
\* with the index that readIndex decodes (the file holds its 2048 bytes).
New ==
  /\ openErr' = Nil
  /\ opened' = Some([index |-> readIndex(disk), shared |-> FALSE])
  /\ UNCHANGED <<hasher, entries, finalizeOnce, bufferedWriter, bufferedOffset,
                 estimatedFooterSize, writerClosed, disk, pc, local, ret,
                 frozen, got, lastPut, putCalls, puts, finRuns, ckWrites, finErr,
                 corrupted>>

\* Whether ReadAt of n bytes at off fails on reader r: its file is closed
\* (a CDB from Freeze reads the Writer's file), or the file ends before.
ReadFails(r, off, n) ==
  \/ r.shared /\ writerClosed
  \/ BLt(Size(disk), BAdd(off, n))

\* getValueAt without the comparison of the key's bytes.
getValueAtLengthOnly(r, offset, expectedKey) ==
  LET hdr == Explicit(disk, offset, 8)
      keyLength == tupleFirst(hdr)
      valueLength == tupleSecond(hdr)
      at == U32(BAdd(offset, N(8)))
      n == U32(BAdd(keyLength, valueLength))
  IN IF ReadFails(r, offset, N(8)) THEN [value |-> None, err |-> "EIO"]
     ELSE IF keyLength # N(Len(expectedKey)) THEN [value |-> None, err |-> Nil]
     ELSE IF ReadFails(r, at, n) THEN [value |-> None, err |-> "EIO"]
     ELSE [value |-> Some(Slice(disk, BAdd(at, keyLength),
                                BSub(n, keyLength))),
           err |-> Nil]

\* getValueAt(offset, expectedKey): [value, err], value None for no match.
getValueAt(r, offset, expectedKey) ==
  LET hdr == Explicit(disk, offset, 8)
      keyLength == tupleFirst(hdr)
      valueLength == tupleSecond(hdr)
      at == U32(BAdd(offset, N(8)))
      n == U32(BAdd(keyLength, valueLength))
  IN IF ReadFails(r, offset, N(8)) THEN [value |-> None, err |-> "EIO"]
     ELSE IF keyLength # N(Len(expectedKey)) THEN [value |-> None, err |-> Nil]
     ELSE IF ReadFails(r, at, n) THEN [value |-> None, err |-> "EIO"]
     ELSE IF Explicit(disk, at, Len(expectedKey)) # expectedKey
          THEN [value |-> None, err |-> Nil]
          ELSE [value |-> Some(Slice(disk, BAdd(at, keyLength),
                                     BSub(n, keyLength))),
                err |-> Nil]

\* What Get does with a slot whose hash is slotHash: "stop" at an empty
\* slot, "match" on the key's hash, "next" otherwise.
SlotCase(slotHash, hash) ==
  IF slotHash = Zero THEN "stop"
  ELSE IF slotHash = hash THEN "match"
  ELSE "next"

\* The slot after slot without the wrap-around.
NextSlotNoWrap(slot, length) == slot + 1

\* slot = (slot + 1) % table.length
NextSlot(slot, length) == (slot + 1) % ToInt(length)

\* The probe loop of Get from slot on: the value and error it returns, and
\* reads, the offsets of the slots it read, in order.
RECURSIVE GetLoop(_, _, _, _, _, _)
GetLoop(r, key, hash, table, startingSlot, slot) ==
  LET slotOffset == U32(BAdd(table.offset, N(8 * slot)))
      tuple == Explicit(disk, slotOffset, 8)
      case == SlotCase(tupleFirst(tuple), hash)
      v == getValueAt(r, tupleSecond(tuple), key)
      next == NextSlot(slot, table.length)
      res(value, err) == [value |-> value, err |-> err, reads |-> <<slotOffset>>]
      rest == GetLoop(r, key, hash, table, startingSlot, next)
  IN IF ReadFails(r, slotOffset, N(8)) THEN res(None, "EIO")
     ELSE IF case = "stop" THEN res(None, Nil)
     ELSE IF case = "match" /\ (v.err # Nil \/ v.value # None)
          THEN res(v.value, v.err)
     ELSE IF next = startingSlot THEN res(None, Nil)
     ELSE [rest EXCEPT !.reads = <<slotOffset>> \o @]

\* CDB.Get(key) on reader r: [value, err].
GetResult(r, key) ==
  LET hash == hasher[key]
      table == r.index[LowByte(hash) + 1]
      startingSlot == StartSlot(hash, table.length)
  IN IF table.length = Zero THEN [value |-> None, err |-> Nil, reads |-> <<>>]
     ELSE GetLoop(r, key, hash, table, startingSlot, startingSlot)

\* The readers there are: 0 from Open, or caller p's from Freeze.
Reader(name) == IF name = 0 THEN opened ELSE frozen[name]

Get(name, key) ==
  /\ Reader(name) # NoCDB
  /\ \E res \in {GetResult(Reader(name)[1], key)} :
       got' = [reader |-> name, key |-> key,
               value |-> res.value, err |-> res.err, reads |-> res.reads]
  /\ UNCHANGED <<hasher, entries, finalizeOnce, bufferedWriter, bufferedOffset,
                 estimatedFooterSize, writerClosed, disk, pc, local, ret,
                 frozen, opened, openErr, lastPut, putCalls, puts, finRuns, ckWrites,
                 finErr, corrupted>>

\* A byte of the file changed from outside: position pos gets byte b.
Corrupt(pos, b) ==
  /\ BLt(pos, Size(disk))
  /\ ByteAt(disk, pos) # b
  /\ ~corrupted
  /\ corrupted' = TRUE
  /\ disk' = Cat(Cat(TakeBytes(disk, pos), Lit(<<b>>)),
                 DropBytes(disk, BAdd(pos, N(1))))
  /\ UNCHANGED <<hasher, entries, finalizeOnce, bufferedWriter, bufferedOffset,
                 estimatedFooterSize, writerClosed, pc, local, ret, frozen,
                 opened, openErr, got, lastPut, putCalls, puts, finRuns, ckWrites,
                 finErr>>

\* ------------------------------------------------------ specifications

MaxPuts == 2

\* Values: canonical pieces.
Values == {Piece(<<>>, Zero), Piece(<<7>>, Zero)}

\* Build, close, reopen, look up.
Next ==
  \/ \E key \in Keys, value \in Values :
       putCalls < MaxPuts /\ ~finalizeOnce /\ Put(key, value)
  \/ ~finalizeOnce /\ Do(1, "Close", "none")
  \/ CloseReturn(1)
  \/ ret[1].op = "Close" /\ opened = None /\ Open
  \/ \E key \in Keys : Get(0, key)

Spec == Init /\ [][Next]_vars

\* ------------------------------------------------- round trip and lookup

\* The accepted Puts of key, in order.
PutsOf(key) == {i \in 1..Len(puts) : puts[i][1] = key}

\* Every key was put at most once.
EachKeyPutOnce == \A key \in Keys : Cardinality(PutsOf(key)) <= 1

\* A Get on the reader from Open has returned.
GotFromOpened == got.reader = 0

\* C1: round trip.  When each key was put once and the Writer was closed and
\* the file reopened, Get(key) of a key that was put returns the value put
\* for it and no error, whatever hash the hasher gives the key.
C1_RoundTrip ==
  (GotFromOpened /\ EachKeyPutOnce) =>
    \A i \in PutsOf(got.key) :
      got.value = Some(puts[i][2]) /\ got.err = Nil

\* The round trip of the keys whose hash is not 0; of several Puts of one
\* key, Get returns the value of the first.
RoundTripNonZeroHash ==
  (GotFromOpened /\ hasher[got.key] # Zero) =>
    \A i \in PutsOf(got.key) :
      (\A j \in PutsOf(got.key) : i <= j) =>
        (got.value = Some(puts[i][2]) /\ got.err = Nil)

\* C2: negative lookup.  On the reopened file, Get(key) of a key that was
\* never put returns nil and no error, also when a stored key has the same
\* hash.
C2_NegativeLookup ==
  (GotFromOpened /\ PutsOf(got.key) = {}) =>
    (got.value = None /\ got.err = Nil)

\* A Get of an absent key whose hash a stored key of the same length shares.
C2_Witness ==
  /\ GotFromOpened
  /\ PutsOf(got.key) = {}
  /\ \E i \in 1..Len(puts) :
       /\ hasher[puts[i][1]] = hasher[got.key]
       /\ Len(puts[i][1]) = Len(got.key)
       /\ hasher[got.key] # Zero
  /\ got.value = None

\* C10: empty database.  When Put was never called, Close succeeds, Open
\* accepts the file, and Get returns nil and no error for every key.
C10_EmptyDatabase ==
  putCalls = 0 =>
    /\ ret[1].op = "Close" => ret[1].err = Nil
    /\ openErr = Nil
    /\ GotFromOpened => (got.value = None /\ got.err = Nil)

\* The empty database was closed and opened, and a Get on it returned.
C10_Witness ==
  /\ putCalls = 0
  /\ finErr = Nil
  /\ opened # NoCDB
  /\ GotFromOpened
  /\ Size(disk) = N(indexSize + digestSize)

\* ---------------------------------------------------------- size limit

\* The length of the longest value that Put accepts with a one-byte key as
\* the first record: indexSize + 8 + 1 + BigLen + 16 = MaxUint32.
BigLen == BSub(MaxUint32, N(indexSize + 8 + 1 + 16))

\* Values of 7, of BigLen and of BigLen + 1 bytes: a byte 7, then zeros.
SizeValues ==
  {Piece(<<7>>, N(6)), Piece(<<7>>, BSub(BigLen, N(1))), Piece(<<7>>, BigLen)}

\* Build with values near the limit, close, reopen, look up.
NextSize ==
  \/ \E key \in Keys, value \in SizeValues :
       putCalls < MaxPuts /\ ~finalizeOnce /\ Put(key, value)
  \/ ~finalizeOnce /\ Do(1, "Close", "none")
  \/ CloseReturn(1)
  \/ ret[1].op = "Close" /\ opened = None /\ Open
  \/ \E key \in Keys : Get(0, key)

SpecSize == NewWriter(FewHashers) /\ [][NextSize]_vars

\* C3: after Puts that all succeeded and a successful finalize, the file
\* with its directory, records, sub-tables and checksum trailer is at most
\* 2^32 - 1 bytes long.
C3_FileWithinLimit ==
  (finErr = Nil /\ Len(puts) = putCalls) => BLe(Size(disk), MaxUint32)

\* A Put that returns ErrTooMuchData writes nothing and leaves the Writer's
\* entries, offset and footer estimate as they were.
RejectedPutChangesNothing ==
  [][(putCalls' = putCalls + 1 /\ lastPut'.err = "ErrTooMuchData") =>
       UNCHANGED <<entries, bufferedWriter, bufferedOffset,
                   estimatedFooterSize, disk>>]_vars

\* C4: when the last Put was refused with ErrTooMuchData and the Writer is
\* then closed, Close succeeds, Open accepts the file, and Get returns the
\* value written for every key accepted before (each put once).
C4_ValidAfterRejection ==
  (lastPut.err = "ErrTooMuchData" /\ EachKeyPutOnce) =>
    /\ ret[1].op = "Close" => ret[1].err = Nil
    /\ openErr = Nil
    /\ GotFromOpened =>
         \A i \in PutsOf(got.key) :
           got.value = Some(puts[i][2]) /\ got.err = Nil

\* ------------------------------------------------------------ checksum

MaxCorruptPuts == 1

\* The bytes a corruption may put at a position.
CorruptBytes == {0, 255}

\* The positions a corruption may hit: the index entries of the tables 0
\* and 255, and every byte after the index (records, sub-tables, trailer).
CorruptPositions ==
  {N(i) : i \in 0..7} \cup {N(i) : i \in (indexSize - 8)..(ToInt(Size(disk)) - 1)}

\* Build, close (the write of the checksum may fail), change one byte of a
\* finalized file, open.
NextCorrupt ==
  \/ \E key \in Keys, value \in Values :
       putCalls < MaxCorruptPuts /\ ~finalizeOnce /\ Put(key, value)
  \/ \E fp \in {"none", "ck"} : ~finalizeOnce /\ Do(1, "Close", fp)
  \/ CloseReturn(1)
  \/ \E pos \in CorruptPositions, b \in CorruptBytes :
       finErr = Nil /\ opened = None /\ openErr = Nil /\ Corrupt(pos, b)
  \/ opened = None /\ openErr = Nil /\ Open

SpecCorrupt == NewWriter(NonZeroHashers) /\ [][NextCorrupt]_vars

\* C5: Open returns a reader only for a file of at least 2048 + 32 bytes
\* whose last 32 bytes are the digest of the bytes before them, and returns
\* none for a finalized file of which one byte was changed.
C5_ChecksumEnforced ==
  /\ opened # NoCDB =>
       /\ BLe(N(indexSize + digestSize), Size(disk))
       /\ Explicit(disk, BSub(Size(disk), N(digestSize)), digestSize)
            = Sum256(TakeBytes(disk, BSub(Size(disk), N(digestSize))))
  /\ corrupted => opened = NoCDB

\* Open has refused a finalized file with a record, one byte of which was
\* changed.
C5_Witness ==
  /\ corrupted
  /\ puts # <<>>
  /\ openErr = "checksum failed"

\* ------------------------------------------------- Close and Freeze

\* Each goroutine calls Close or Freeze once, in any order and interleaving,
\* with Puts between the calls and Gets on the readers Freeze returned;
\* finalize may fail at any of its I/O operations.
NextOnce ==
  \/ \E key \in Keys : putCalls < MaxPuts /\ Put(key, Piece(<<7>>, Zero))
  \/ \E p \in Callers, op \in {"Close", "Freeze"}, fp \in FailPoints :
       ret[p].op = "none" /\ Do(p, op, fp)
  \/ \E p \in Callers : CloseReturn(p)
  \/ \E p \in Callers : FreezeReturn(p)
  \/ \E p \in Callers, key \in Keys : Get(p, key)

SpecOnce == NewWriter(NonZeroHashers) /\ [][NextOnce]_vars

\* C6: for any interleaving of Close and Freeze calls, finalize runs at most
\* once, the checksum is appended at most once and exactly once when
\* finalize succeeded, and once finalize has run the file's bytes never
\* change again.
C6_FinalizeOnce ==
  /\ [](finRuns <= 1 /\ ckWrites <= 1 /\ (finErr = Nil => ckWrites = 1))
  /\ [][finalizeOnce => disk' = disk]_vars

\* Both goroutines have returned from their calls after a successful
\* finalize.
C6_Witness ==
  /\ \A p \in Callers : ret[p].op # "none"
  /\ finErr = Nil
  /\ finRuns = 1
  /\ ckWrites = 1
  /\ puts # <<>>

\* No goroutine is in Close or has returned from it.
OnlyFreeze == \A q \in Callers : pc[q] # "Close" /\ ret[q].op # "Close"

\* C7: when finalize succeeded and only Freeze was called, every reader
\* Freeze returned has the index that is in the file, and a Get on it
\* finds every stored key.
C7_FreezeAgainHasIndex ==
  (finErr = Nil /\ OnlyFreeze) =>
    /\ \A p \in Callers :
         frozen[p] # NoCDB => frozen[p][1].index = readIndex(disk)
    /\ (got.reader \in Callers /\ PutsOf(got.key) # {}) => got.value # None

\* C8: when finalize failed, every Close and Freeze that has returned has
\* returned an error, and no Freeze has returned a reader.
C8_FinalizeErrorReported ==
  (finErr # Nil /\ finErr # "notrun") =>
    \A p \in Callers :
      /\ ret[p].op # "none" => ret[p].err # Nil
      /\ frozen[p] = NoCDB

\* C9: Puts and Closes on the Writer after a Freeze do not make a Get on the
\* reader that Freeze returned fail.
C9_ReaderKeepsFile ==
  got.reader \in Callers => got.err = Nil

\* ------------------------------------------------------ the empty file

\* The file holds its index followed by the digest of the index, and
\* nothing else.
IndexAndDigestOnly ==
  /\ Size(disk) = N(indexSize + digestSize)
  /\ Explicit(disk, N(indexSize), digestSize)
       = Sum256(TakeBytes(disk, N(indexSize)))

\* C11 as stated: the file of a Writer finalized without a Put is 2080
\* bytes, an index of 2048 zero bytes followed by its digest.
C11_EmptyIndexAllZero ==
  (putCalls = 0 /\ finErr = Nil) =>
    /\ IndexAndDigestOnly
    /\ Explicit(disk, Zero, indexSize) = Zeros(indexSize)

\* C11: the file of a Writer finalized without a Put is 2080 bytes, the
\* index followed by its digest; every table of the index has length 0 and
\* the offset 2048, the end of the index, where the empty sub-tables start.
C11_EmptyIndexAtEnd ==
  (putCalls = 0 /\ finErr = Nil) =>
    /\ IndexAndDigestOnly
    /\ readIndex(disk) =
         [i \in 1..nBuckets |-> [offset |-> N(indexSize), length |-> Zero]] \o <<>>

\* A Writer without a Put was closed.
C11_Witness ==
  /\ putCalls = 0
  /\ finErr = Nil
  /\ ret[1].op = "Close"
  /\ ret[1].err = Nil

\* ------------------------------------------------- duplicates and probing

MaxDupPuts == 3

\* Hashers that put every key into bucket 0, with the hash 0 or 0x500: a
\* probe for 0x500 starts at slot 1 of 2 or 4 and at slot 5 of 6, where it
\* wraps around to slot 0, the slot a probe for the hash 0 starts at.
DupHashers ==
  {h \in [Keys -> {Zero, <<0, 1280>>}] :
     /\ h[<<1, 2>>] = <<0, 1280>>
     /\ h[<<1>>] = <<0, 1280>> => h[<<2>>] = <<0, 1280>>}

\* Build with up to three records in one bucket, close, reopen, look up.
NextDup ==
  \/ \E key \in Keys, value \in Values :
       putCalls < MaxDupPuts /\ ~finalizeOnce /\ Put(key, value)
  \/ ~finalizeOnce /\ Do(1, "Close", "none")
  \/ CloseReturn(1)
  \/ ret[1].op = "Close" /\ opened = None /\ Open
  \/ \E key \in Keys : Get(0, key)

SpecDup == NewWriter(DupHashers) /\ [][NextDup]_vars

\* The table of the opened reader's index that key belongs to.
TableOf(key) == opened[1].index[LowByte(hasher[key]) + 1]

\* The slot of table t that is k steps from the start of key's probe.
ProbeSlot(t, key, k) == (StartSlot(hasher[key], t.length) + k) % ToInt(t.length)

\* The 8 bytes of slot number slot of table t in the file.
SlotTuple(t, slot) == Explicit(disk, BAdd(t.offset, N(8 * slot)), 8)

\* The record at offset in the file has the key key.
RecordHasKey(offset, key) ==
  /\ BLe(BAdd(offset, N(8 + Len(key))), Size(disk))
  /\ tupleFirst(Explicit(disk, offset, 8)) = N(Len(key))
  /\ Explicit(disk, BAdd(offset, N(8)), Len(key)) = key

\* The value of the record at offset in the file.
RecordValue(offset) ==
  Slice(disk, BAdd(BAdd(offset, N(8)), tupleFirst(Explicit(disk, offset, 8))),
        tupleSecond(Explicit(disk, offset, 8)))

\* The steps of key's probe at which it is at a slot of a record of key.
KeySteps(key) ==
  {k \in 0..(ToInt(TableOf(key).length) - 1) :
     LET tuple == SlotTuple(TableOf(key), ProbeSlot(TableOf(key), key, k))
     IN tupleFirst(tuple) = hasher[key] /\ RecordHasKey(tupleSecond(tuple), key)}

\* The value in the first slot of a record of key in probe order.
FirstInProbeOrder(key) ==
  LET k == CHOOSE k \in KeySteps(key) : \A j \in KeySteps(key) : k <= j
  IN RecordValue(tupleSecond(SlotTuple(TableOf(key),
                                       ProbeSlot(TableOf(key), key, k))))

\* key was put more than once, with different values.
PutWithDifferentValues(key) ==
  \E i, j \in PutsOf(key) : puts[i][2] # puts[j][2]

\* C12: for a key put more than once, Get returns the value of the record
\* in the first slot reached in probe order among the slots of the key's
\* records, and no error.
C12_DuplicateFirstInProbeOrder ==
  (GotFromOpened /\ PutWithDifferentValues(got.key) /\ KeySteps(got.key) # {}) =>
    (got.value = Some(FirstInProbeOrder(got.key)) /\ got.err = Nil)

\* The same for the keys whose hash is not 0.
DuplicateFirstInProbeOrderNonZero ==
  (GotFromOpened /\ PutWithDifferentValues(got.key) /\ hasher[got.key] # Zero) =>
    /\ KeySteps(got.key) # {}
    /\ got.value = Some(FirstInProbeOrder(got.key))
    /\ got.err = Nil

\* The first Put of key.
FirstPut(key) == CHOOSE i \in PutsOf(key) : \A j \in PutsOf(key) : i <= j

\* C18: first write wins.  When a key whose hash is not 0 was put several
\* times, every Get of it on the reopened file returns the value of its
\* earliest Put and no error, never the value of a later Put.
C18_FirstWriteWins ==
  (GotFromOpened /\ hasher[got.key] # Zero
     /\ Cardinality(PutsOf(got.key)) >= 2) =>
    /\ got.value = Some(puts[FirstPut(got.key)][2])
    /\ got.err = Nil

\* A key of non-zero hash was put twice, the second time with another
\* value, and Get returned the first value.
C18_Witness ==
  /\ GotFromOpened
  /\ hasher[got.key] # Zero
  /\ Cardinality(PutsOf(got.key)) >= 2
  /\ \E j \in PutsOf(got.key) : puts[j][2] # puts[FirstPut(got.key)][2]
  /\ got.value = Some(puts[FirstPut(got.key)][2])

\* Some key of hash 0 was put into the bucket of key.
ZeroHashPutBeside(key) ==
  \E i \in 1..Len(puts) :
    /\ hasher[puts[i][1]] = Zero
    /\ LowByte(hasher[puts[i][1]]) = LowByte(hasher[key])

\* C19: a stored key whose hash is not 0 is found by Get with the value of
\* its (first) Put and no error, also when keys of hash 0 were put into
\* the same bucket before or after it.
C19_NonZeroHashKeyFound ==
  (GotFromOpened /\ hasher[got.key] # Zero /\ PutsOf(got.key) # {}
     /\ ZeroHashPutBeside(got.key)) =>
    /\ got.value = Some(puts[FirstPut(got.key)][2])
    /\ got.err = Nil

\* A key of non-zero hash was put between two Puts of keys of hash 0 in its
\* bucket, and Get returned its value.
C19_Witness ==
  /\ GotFromOpened
  /\ hasher[got.key] # Zero
  /\ Len(puts) = 3
  /\ puts[2][1] = got.key
  /\ hasher[puts[1][1]] = Zero
  /\ hasher[puts[3][1]] = Zero
  /\ got.value = Some(puts[2][2])
  /\ got.err = Nil

\* ----------------------------------------------- directory and sub-tables

\* The sub-table t as it is in the file: its slots, each (hash, offset).
FileTable(t) ==
  [n \in 1..ToInt(t.length) |->
     [hash |-> tupleFirst(SlotTuple(t, n - 1)),
      offset |-> tupleSecond(SlotTuple(t, n - 1))]]

\* C13: after a successful finalize, the length of every table of the
\* index in the file is twice the number of entries put into its bucket, so
\* it is 0 exactly for the buckets without an entry, and at least half the
\* slots of every sub-table are empty.
C13_DirectoryLengths ==
  opened # NoCDB =>
    \A i \in Buckets :
      LET t == opened[1].index[i + 1] IN
      /\ t.length = N(2 * Len(entries[i]))
      /\ t.length = Zero <=> entries[i] = <<>>
      /\ Cardinality({n \in 1..ToInt(t.length) : FileTable(t)[n].hash = Zero})
           >= Len(entries[i])

\* A file with one entry in bucket 0 and one in bucket 255 was opened.
C13_Witness ==
  /\ opened # NoCDB
  /\ Len(entries[0]) = 1
  /\ Len(entries[255]) = 1
  /\ opened[1].index[1].length = N(2)

\* The first slot from slot on, with wrap-around, that holds no entry (no
\* entry has the offset 0).
RECURSIVE FirstUnoccupied(_, _)
FirstUnoccupied(sorted, slot) ==
  IF sorted[slot + 1].offset = Zero THEN slot
  ELSE FirstUnoccupied(sorted, (slot + 1) % Len(sorted))

\* The sub-table in which each entry, in insertion order, takes the first
\* slot in probe order that holds no entry.
RECURSIVE PlacedInOrder(_, _)
PlacedInOrder(sorted, tableEntries) ==
  IF tableEntries = <<>> THEN sorted
  ELSE PlacedInOrder(
         [sorted EXCEPT
            ![FirstUnoccupied(sorted,
                StartSlot(Head(tableEntries).hash, N(Len(sorted)))) + 1]
              = Head(tableEntries)],
         Tail(tableEntries))

\* C14: after finalize, every sub-table in the file holds each entry of
\* its bucket once, none dropped or overwritten, each in the first slot
\* that held no entry, in probe order, when it was placed.
C14_NoEntryLost ==
  opened # NoCDB =>
    \A i \in NonEmpty :
      FileTable(opened[1].index[i + 1])
        = PlacedInOrder([n \in 1..(2 * Len(entries[i])) |-> EmptySlot], entries[i])

\* The same for the buckets without an entry whose hash is 0.
NoEntryLostNonZero ==
  opened # NoCDB =>
    \A i \in NonEmpty :
      (\A n \in 1..Len(entries[i]) : entries[i][n].hash # Zero) =>
        FileTable(opened[1].index[i + 1])
          = PlacedInOrder([n \in 1..(2 * Len(entries[i])) |-> EmptySlot], entries[i])

\* The size of the records of the Puts ps: 8 + len(key) + len(value) each.
RECURSIVE RecordBytes(_)
RecordBytes(ps) ==
  IF ps = <<>> THEN Zero
  ELSE BAdd(BAdd(N(8 + Len(Head(ps)[1])), PLen(Head(ps)[2])),
            RecordBytes(Tail(ps)))

\* C15: after a successful finalize the sub-tables lie back to back in
\* bucket order: the first starts where the records end, each next one
\* where the one before ends, and the last ends where the trailer starts.
C15_SubTableLayout ==
  opened # NoCDB =>
    LET index == opened[1].index
        end(i) == BAdd(index[i].offset, N(8 * ToInt(index[i].length)))
    IN /\ index[1].offset = BAdd(N(indexSize), RecordBytes(puts))
       /\ \A i \in 1..(nBuckets - 1) : index[i + 1].offset = end(i)
       /\ BAdd(end(nBuckets), N(digestSize)) = Size(disk)

\* A file with sub-tables for bucket 0 and bucket 255 was opened.
C15_Witness ==
  /\ opened # NoCDB
  /\ entries[0] # <<>>
  /\ entries[255] # <<>>
  /\ opened[1].index[nBuckets].offset = BAdd(opened[1].index[1].offset, N(16))

\* ------------------------------------------------------- the probe of Get

\* The positions of the bytes of the sub-tables: the estimatedFooterSize
\* bytes before the offset that finalize ended at.
SubTablePositions ==
  {N(i) : i \in (ToInt(bufferedOffset) - ToInt(estimatedFooterSize))
                ..(ToInt(bufferedOffset) - 1)}

\* Build one bucket, close, change one byte of a sub-table (which can fill
\* the free slot of a table of two), read the file with New, look up.
NextProbe ==
  \/ \E key \in Keys :
       putCalls < MaxPuts /\ ~finalizeOnce /\ Put(key, Piece(<<7>>, Zero))
  \/ ~finalizeOnce /\ Do(1, "Close", "none")
  \/ CloseReturn(1)
  \/ \E pos \in SubTablePositions, b \in CorruptBytes :
       ret[1].op = "Close" /\ opened = None /\ Corrupt(pos, b)
  \/ ret[1].op = "Close" /\ opened = None /\ New
  \/ \E key \in Keys : Get(0, key)

SpecProbe == NewWriter(DupHashers) /\ [][NextProbe]_vars

\* C16: whatever the sub-table holds, Get reads at most table.length
\* slots, no slot twice, and every slot it reads lies in the sub-table,
\* between table.offset and table.offset + 8 * table.length.
C16_GetBounded ==
  GotFromOpened =>
    LET t == TableOf(got.key) IN
    /\ Len(got.reads) <= ToInt(t.length)
    /\ \A n \in 1..Len(got.reads) :
         /\ BLe(t.offset, got.reads[n])
         /\ BLe(BAdd(got.reads[n], N(8)),
                BAdd(t.offset, N(8 * ToInt(t.length))))
    /\ \A m, n \in 1..Len(got.reads) : got.reads[m] = got.reads[n] => m = n

\* A Get has read every slot of a sub-table without an empty slot and
\* returned nil.
C16_Witness ==
  /\ GotFromOpened
  /\ corrupted
  /\ TableOf(got.key).length # Zero
  /\ \A n \in 1..ToInt(TableOf(got.key).length) :
       FileTable(TableOf(got.key))[n].hash # Zero
  /\ Len(got.reads) = ToInt(TableOf(got.key).length)
  /\ got.value = None
  /\ got.err = Nil

\* ----------------------------------------------------- the guard of Put

\* C17: while Puts are made, bufferedOffset + estimatedFooterSize is at
\* most 2^32 - 1 and estimatedFooterSize is 16 times the number of accepted
\* Puts; the offset of every entry is the whole offset of its record; and
\* finalize never returns ErrTooMuchData.
C17_PutKeepsWithinLimit ==
  /\ ~finalizeOnce =>
       /\ BLe(BAdd(bufferedOffset, estimatedFooterSize), MaxUint32)
       /\ estimatedFooterSize = N(16 * Len(puts))
  /\ {e.offset : e \in UNION {{entries[b][n] : n \in 1..Len(entries[b])} :
                                 b \in Buckets}}
       = {BAdd(N(indexSize), RecordBytes(SubSeq(puts, 1, i - 1))) :
            i \in 1..Len(puts)}
  /\ finErr # "ErrTooMuchData"

\* A Put was accepted that brought bufferedOffset + estimatedFooterSize to
\* 2^32 - 1, and finalize then wrote its sub-tables up to that offset and
\* returned nil.
C17_Witness ==
  /\ finalizeOnce
  /\ finErr = Nil
  /\ ret[1].op = "Close"
  /\ Len(puts) >= 1
  /\ bufferedOffset = MaxUint32
  /\ estimatedFooterSize = N(16 * Len(puts))

====
